---- MODULE Spec2Model ----
(***************************************************************************)
(* A model of the SDF modeler: the scene AST and its builder               *)
(* (sdf_ast.rs), the WGSL generator (wgsl_gen.rs) of the modeler and of    *)
(* the proof-of-concept program, and the tab that compiles a project and   *)
(* publishes GPU resources to the render callbacks (mod.rs,                *)
(* sdf_widget.rs).                                                         *)
(*                                                                         *)
(* Text is a sequence of tokens; a numeric literal is one token, the       *)
(* string that format!("{:.4}") produces.  An f32 is an integer count of   *)
(* 10^-5 units (1.0 is 100000), so that formatting to 4 decimals rounds.   *)
(***************************************************************************)
EXTENDS Integers, Sequences, FiniteSets, TLC

VARIABLES
    prog,      \* which program evaluates the script: "modeler" or "poc"
    node,      \* the script variable holding the scene built so far
    ret,       \* the value returned by the last builder call
    call,      \* the builder call that returned it: the method and its arguments
    wgsl,      \* the text returned by generate, <<>> before it ran
    ssaa       \* the anti-aliasing level handed to generate

genVars == <<prog, node, ret, call, wgsl, ssaa>>

VARIABLES
    sdf_resources,      \* the shared slot: None or the published SdfRenderResources
    lock,               \* the slot's RwLock: the writer and the readers holding it
    current_shader,     \* SdfTab.current_shader, <<>> when empty
    project_path,       \* SdfTab.project_path
    compiler_error,     \* SdfTab.compiler_error
    last_applied_ssaa,  \* SdfTab.last_applied_ssaa
    settings,           \* SdfSettings.ssaa_level, shared with the settings page
    main_rhai,          \* what the project's main.rhai holds on disk
    ui_pc,              \* where the tab's ui() turn stands
    click,              \* the button this frame's input clicks
    callbacks,          \* the paint callbacks queued for the renderer, oldest first
    created,            \* how many SdfRenderResources were created so far
    last_draw           \* the objects the last draw pass used

tabVars ==
    <<sdf_resources, lock, current_shader, project_path, compiler_error, last_applied_ssaa,
      settings, main_rhai, ui_pc, click, callbacks, created, last_draw>>

VARIABLES
    emit_stack,    \* the calls of emit_expression still to run, as paths from the root
    emit_visited   \* the nodes emit_expression was called on so far, in call order

emitVars == <<emit_stack, emit_visited>>

vars == <<genVars, tabVars, emitVars>>

(* ------------------------------ bounds -------------------------------- *)

\* The largest number of nodes of a tree the script builds.
MaxNodes == 3

\* The paint callbacks that can wait for the renderer at one time.
MaxCallbacks == 2

\* The resource creations a run follows.
MaxCreated == 2

(* ------------------------------ numbers ------------------------------- *)

Unit == 10 * 10000

Abs(v) == IF v < 0 THEN 0 - v ELSE v

\* An f32 whose sign is kept apart from its magnitude: -0.0 is a value.
F32(v) == [neg |-> v < 0, mag |-> Abs(v)]

\* Unary minus on an f32 flips the sign bit, also of zero.
Neg(f) == [neg |-> ~f.neg, mag |-> f.mag]

\* f32::to_radians: multiplication by pi/180 (pi as 355/113, so pi/180 is
\* 71/4068), to the nearest unit.
to_radians(f) == [neg |-> f.neg, mag |-> (f.mag * 71 + 2034) \div 4068]

Pad4(n) ==
    (IF n < 1000 THEN "0" ELSE "") \o (IF n < 100 THEN "0" ELSE "")
        \o (IF n < 10 THEN "0" ELSE "") \o ToString(n)

\* A slip in the format: the decimals written without their leading zeros
\* and not to a fixed width.
Fmt4F_unpadded(f) ==
    LET q == (f.mag + 5) \div 10
    IN  (IF f.neg THEN "-" ELSE "") \o ToString(q \div 10000) \o "." \o ToString(q % 10000)

\* format!("{:.4}", f): the sign, the integer part, a point and exactly four
\* decimals, the magnitude rounded to the nearest 10^-4.
Fmt4F(f) ==
    LET q == (f.mag + 5) \div 10
    IN  (IF f.neg THEN "-" ELSE "") \o ToString(q \div 10000) \o "." \o Pad4(q % 10000)

Fmt4(v) == Fmt4F(F32(v))

(* ------------------------------ the AST ------------------------------- *)

Nil == [op |-> "Nil"]

new_sphere(radius) == [op |-> "Sphere", radius |-> radius]
new_box(x, y, z) == [op |-> "Box", size |-> <<x, y, z>>]
new_cylinder(r, h) == [op |-> "Cylinder", radius |-> r, height |-> h]
new_torus(major, minor) == [op |-> "Torus", major_radius |-> major, minor_radius |-> minor]

\* Box::new(self.clone()): the child is a copy of the receiver's value.
union(self, other) == [op |-> "Union", a |-> self, b |-> other, smooth |-> 0]
smooth_union(self, other, k) == [op |-> "Union", a |-> self, b |-> other, smooth |-> k]
\* A slip in the operands: the receiver on the right, the argument on the left.
subtract_swapped(self, other) == [op |-> "Subtract", a |-> other, b |-> self, smooth |-> 0]
subtract(self, other) == [op |-> "Subtract", a |-> self, b |-> other, smooth |-> 0]
smooth_subtract(self, other, k) == [op |-> "Subtract", a |-> self, b |-> other, smooth |-> k]
\* Only the proof of concept has a builder for Intersect.
intersect(self, other) == [op |-> "Intersect", a |-> self, b |-> other, smooth |-> 0]

translate(self, x, y, z) == [op |-> "Translate", target |-> self, offset |-> <<x, y, z>>]
rotate_x(self, deg) == [op |-> "Rotate", target |-> self, axis |-> <<Unit, 0, 0>>, angle_deg |-> deg]
rotate_y(self, deg) == [op |-> "Rotate", target |-> self, axis |-> <<0, Unit, 0>>, angle_deg |-> deg]
rotate_z(self, deg) == [op |-> "Rotate", target |-> self, axis |-> <<0, 0, Unit>>, angle_deg |-> deg]
mirror_x(self) == [op |-> "Mirror", target |-> self, axis |-> <<Unit, 0, 0>>]
mirror_y(self) == [op |-> "Mirror", target |-> self, axis |-> <<0, Unit, 0>>]
mirror_z(self) == [op |-> "Mirror", target |-> self, axis |-> <<0, 0, Unit>>]
color(self, r, g, b) == [op |-> "Color", target |-> self, color |-> <<r, g, b>>]

\* The variants of SdfOp built directly (its fields are public): the values
\* no builder produces.
SdfOp_Intersect(a, b, k) == [op |-> "Intersect", a |-> a, b |-> b, smooth |-> k]
SdfOp_Rotate(target, axis, deg) == [op |-> "Rotate", target |-> target, axis |-> axis, angle_deg |-> deg]
SdfOp_Mirror(target, axis) == [op |-> "Mirror", target |-> target, axis |-> axis]

IsPrimitive(n) == n.op \in {"Sphere", "Box", "Cylinder", "Torus"}
IsCombinator(n) == n.op \in {"Union", "Subtract", "Intersect"}
IsTransform(n) == n.op \in {"Translate", "Rotate", "Mirror", "Color"}

RECURSIVE Size(_)
Size(n) ==
    IF IsCombinator(n) THEN 1 + Size(n.a) + Size(n.b)
    ELSE IF IsTransform(n) THEN 1 + Size(n.target)
    ELSE 1

(* ---------------------- the modeler's generator ----------------------- *)

\* The threshold an axis component is compared with (signed, no abs).
AxisThreshold == 90000

Call1(f, x) == <<f, "(">> \o x \o <<")">>
Call2(f, x, y) == <<f, "(">> \o x \o <<",">> \o y \o <<")">>
Call3(f, x, y, z) == <<f, "(">> \o x \o <<",">> \o y \o <<",">> \o z \o <<")">>

Vec3Lit(v) == Call3("vec3<f32>", <<Fmt4(v[1])>>, <<Fmt4(v[2])>>, <<Fmt4(v[3])>>)

\* The colour every primitive carries: vec3<f32>(0.2, 0.55, 1.0).
DefaultColor == Call3("vec3<f32>", <<"0.2">>, <<"0.55">>, <<"1.0">>)

\* A slip in the argument order: the two fields of a cylinder and of a torus
\* written the other way round.
emit_primitive_fields_swapped(n, p_var) ==
    CASE n.op = "Sphere" ->
           Call2("SdfResult", Call2("sd_sphere", p_var, <<Fmt4(n.radius)>>), DefaultColor)
      [] n.op = "Box" ->
           Call2("SdfResult", Call2("sd_box", p_var, Vec3Lit(n.size)), DefaultColor)
      [] n.op = "Cylinder" ->
           Call2("SdfResult",
                 Call3("sd_cylinder", p_var, <<Fmt4(n.height)>>, <<Fmt4(n.radius)>>),
                 DefaultColor)
      [] n.op = "Torus" ->
           Call2("SdfResult",
                 Call2("sd_torus", p_var,
                       Call2("vec2<f32>", <<Fmt4(n.minor_radius)>>, <<Fmt4(n.major_radius)>>)),
                 DefaultColor)

emit_primitive(n, p_var) ==
    CASE n.op = "Sphere" ->
           Call2("SdfResult", Call2("sd_sphere", p_var, <<Fmt4(n.radius)>>), DefaultColor)
      [] n.op = "Box" ->
           Call2("SdfResult", Call2("sd_box", p_var, Vec3Lit(n.size)), DefaultColor)
      [] n.op = "Cylinder" ->
           Call2("SdfResult",
                 Call3("sd_cylinder", p_var, <<Fmt4(n.radius)>>, <<Fmt4(n.height)>>),
                 DefaultColor)
      [] n.op = "Torus" ->
           Call2("SdfResult",
                 Call2("sd_torus", p_var,
                       Call2("vec2<f32>", <<Fmt4(n.major_radius)>>, <<Fmt4(n.minor_radius)>>)),
                 DefaultColor)

emit_union_always_smooth(res1, res2, smooth) ==
    Call3("op_union_smooth", res1, res2, <<Fmt4(smooth)>>)

emit_union(res1, res2, smooth) ==
    IF smooth > 0
    THEN Call3("op_union_smooth", res1, res2, <<Fmt4(smooth)>>)
    ELSE Call2("op_union", res1, res2)

emit_subtract(res1, res2, smooth) ==
    IF smooth > 0
    THEN Call3("op_subtract_smooth", res1, res2, <<Fmt4(smooth)>>)
    ELSE Call2("op_subtract", res1, res2)

emit_intersect_smooth_when_blended(res1, res2, smooth) ==
    IF smooth > 0
    THEN Call3("op_intersect_smooth", res1, res2, <<Fmt4(smooth)>>)
    ELSE Call2("op_intersect", res1, res2)

emit_intersect(res1, res2, smooth) == Call2("op_intersect", res1, res2)

\* A slip in the nesting: the offset subtracted from the sampled point inside
\* the incoming point expression, not from the expression as a whole.
translate_point_innermost(p_var, offset) ==
    LET moved == <<"(", "p_in", "-">> \o Vec3Lit(offset) \o <<")">>
        at == {i \in 1..Len(p_var) : p_var[i] = "p_in"}
        i == CHOOSE k \in at : TRUE
    IN  SubSeq(p_var, 1, i - 1) \o moved \o SubSeq(p_var, i + 1, Len(p_var))

\* A slip in the direction: the offset added to the point.
translate_point_adding(p_var, offset) ==
    <<"(">> \o p_var \o <<"+">> \o Vec3Lit(offset) \o <<")">>

translate_point(p_var, offset) == <<"(">> \o p_var \o <<"-">> \o Vec3Lit(offset) \o <<")">>

axis_name_by_abs(axis) ==
    IF Abs(axis[1]) > AxisThreshold THEN "x"
    ELSE IF Abs(axis[2]) > AxisThreshold THEN "y"
    ELSE "z"

axis_name(axis) ==
    IF axis[1] > AxisThreshold THEN "x"
    ELSE IF axis[2] > AxisThreshold THEN "y"
    ELSE "z"

rotate_point(p_var, axis, angle_deg) ==
    LET rad == to_radians(Neg(F32(angle_deg)))
    IN  Call2("rotate_" \o axis_name(axis), p_var, <<Fmt4F(rad)>>)

\* A slip in the folding: an else-if chain, only the first flagged axis folded.
mirror_part_first_flagged_only(p_var, axis, i, c) ==
    IF axis[i] > AxisThreshold /\ \A j \in 1..(i - 1) : ~(axis[j] > AxisThreshold)
    THEN Call1("abs", p_var \o <<".", c>>)
    ELSE p_var \o <<".", c>>

mirror_part(p_var, axis, i, c) ==
    IF axis[i] > AxisThreshold THEN Call1("abs", p_var \o <<".", c>>) ELSE p_var \o <<".", c>>

mirror_point(p_var, axis) ==
    Call3("vec3<f32>", mirror_part(p_var, axis, 1, "x"), mirror_part(p_var, axis, 2, "y"),
          mirror_part(p_var, axis, 3, "z"))

\* A slip in the wrapping: a result that is coloured already keeps its colour.
emit_color_inner_wins(res, c) ==
    IF res[1] = "set_color" THEN res ELSE Call2("set_color", res, Vec3Lit(c))

emit_color(res, c) == Call2("set_color", res, Vec3Lit(c))

\* A slip in the combinators' arms: the right child emitted against the
\* sampled point, not against the point the arm was called with.
RECURSIVE emit_expression_right_at_root(_, _)
emit_expression_right_at_root(n, p_var) ==
    CASE IsPrimitive(n) -> emit_primitive(n, p_var)
      [] n.op = "Union" ->
           emit_union(emit_expression_right_at_root(n.a, p_var),
                      emit_expression_right_at_root(n.b, <<"p_in">>), n.smooth)
      [] n.op = "Subtract" ->
           emit_subtract(emit_expression_right_at_root(n.a, p_var),
                         emit_expression_right_at_root(n.b, <<"p_in">>), n.smooth)
      [] n.op = "Intersect" ->
           emit_intersect(emit_expression_right_at_root(n.a, p_var),
                          emit_expression_right_at_root(n.b, <<"p_in">>), n.smooth)
      [] n.op = "Translate" ->
           emit_expression_right_at_root(n.target, translate_point(p_var, n.offset))
      [] n.op = "Rotate" ->
           emit_expression_right_at_root(n.target, rotate_point(p_var, n.axis, n.angle_deg))
      [] n.op = "Mirror" -> emit_expression_right_at_root(n.target, mirror_point(p_var, n.axis))
      [] n.op = "Color" -> emit_color(emit_expression_right_at_root(n.target, p_var), n.color)

RECURSIVE emit_expression(_, _)
emit_expression(n, p_var) ==
    CASE IsPrimitive(n) -> emit_primitive(n, p_var)
      [] n.op = "Union" ->
           emit_union(emit_expression(n.a, p_var), emit_expression(n.b, p_var), n.smooth)
      [] n.op = "Subtract" ->
           emit_subtract(emit_expression(n.a, p_var), emit_expression(n.b, p_var), n.smooth)
      [] n.op = "Intersect" ->
           emit_intersect(emit_expression(n.a, p_var), emit_expression(n.b, p_var), n.smooth)
      [] n.op = "Translate" -> emit_expression(n.target, translate_point(p_var, n.offset))
      [] n.op = "Rotate" -> emit_expression(n.target, rotate_point(p_var, n.axis, n.angle_deg))
      [] n.op = "Mirror" -> emit_expression(n.target, mirror_point(p_var, n.axis))
      [] n.op = "Color" -> emit_color(emit_expression(n.target, p_var), n.color)

\* SsaaLevel and its grid size.
SsaaLevels == {"Off", "Ssaa2x2", "Ssaa4x4", "Ssaa8x8"}

to_u32(level) ==
    CASE level = "Off" -> 1
      [] level = "Ssaa2x2" -> 2
      [] level = "Ssaa4x4" -> 4
      [] level = "Ssaa8x8" -> 8

\* The statements both shapes of fs_main start with.
FsHead ==
    << "@fragment", "fn", "fs_main", "(", "in", ":", "VertexOutput", ")", "->",
       "@location(0)", "vec4<f32>", "{",
       "let", "pixel_pos", "=", "in.clip_position.xy", ";",
       "let", "rect_min", "=", "uniforms.rect_data.xy", ";",
       "let", "rect_size", "=", "uniforms.rect_data.zw", ";",
       "let", "aspect", "=", "rect_size.x", "/", "rect_size.y", ";" >>

UvOf(pos) ==
    << "let", "uv", "=", "(", "(", "(" >> \o pos
       \o << "-", "rect_min", ")", "/", "rect_size", ")", "*", "2.0", "-", "1.0", ")",
             "*", "vec2<f32>", "(", "aspect", ",", "-1.0", ")", ";" >>

ForLoop(v, bound) ==
    << "for", "(", "var", v, ":", "i32", "=", "0", ";", v, "<", bound, ";",
       v, "=", v, "+", "1", ")", "{" >>

fs_main_single ==
    FsHead \o UvOf(<<"pixel_pos">>)
       \o << "return", "vec4<f32>", "(", "render_scene", "(", "uv", ")", ",", "1.0", ")", ";", "}" >>

\* The loops of the sampling grid, with the grid size written into the text.
Accumulate(n) ==
    << "var", "total_color", "=", "vec3<f32>", "(", "0.0", ")", ";",
       "let", "n", ":", "f32", "=", ToString(n) \o ".0", ";" >>
       \o ForLoop("iy", ToString(n))
       \o ForLoop("ix", ToString(n))
       \o << "let", "offset", "=", "(", "vec2<f32>", "(", "f32", "(", "ix", ")", ",",
             "f32", "(", "iy", ")", ")", "+", "0.5", ")", "/", "n", "-", "0.5", ";" >>
       \o UvOf(<<"pixel_pos", "+", "offset">>)
       \o << "total_color", "+=", "render_scene", "(", "uv", ")", ";", "}", "}" >>

Average(divisor) ==
    << "return", "vec4<f32>", "(", "total_color", "/" >> \o divisor
       \o << ",", "1.0", ")", ";", "}" >>

fs_main_loop(n) == FsHead \o Accumulate(n) \o Average(<<"(", "n", "*", "n", ")">>)

\* A slip in the average: the sum divided by the grid size, not its square.
fs_main_divides_by_n(n) ==
    IF n <= 1 THEN fs_main_single ELSE FsHead \o Accumulate(n) \o Average(<<"n">>)

\* A slip in the shape: the loops emitted for the grid of one sample too.
fs_main_always_loop(n) == fs_main_loop(n)

fs_main(n) == IF n <= 1 THEN fs_main_single ELSE fs_main_loop(n)

MapHead ==
    << "struct", "SdfResult", "{", "dist", ":", "f32", ",", "color", ":", "vec3<f32>", ",", "}",
       "fn", "map", "(", "p_in", ":", "vec3<f32>", ")", "->", "SdfResult", "{", "return" >>

generate(root, level) ==
    LET map_expr == emit_expression(root, <<"p_in">>)
        n == to_u32(level)
    IN  MapHead \o map_expr \o <<";", "}">> \o fs_main(n)


(* ------------------ the proof of concept's generator ------------------ *)

InPoc(n) == n.op \in {"Sphere", "Box", "Union", "Subtract", "Intersect", "Translate", "Rotate"}

RECURSIVE AllInPoc(_)
AllInPoc(n) ==
    /\ InPoc(n)
    /\ IF IsCombinator(n) THEN AllInPoc(n.a) /\ AllInPoc(n.b)
       ELSE IF IsTransform(n) THEN AllInPoc(n.target)
       ELSE TRUE

poc_emit_primitive(n, p_var) ==
    CASE n.op = "Sphere" -> Call2("sd_sphere", p_var, <<Fmt4(n.radius)>>)
      [] n.op = "Box" -> Call2("sd_box", p_var, Vec3Lit(n.size))

poc_emit_union(d1, d2, smooth) ==
    IF smooth > 0
    THEN Call3("op_smooth_union", d1, d2, <<Fmt4(smooth)>>)
    ELSE Call2("min", d1, d2)

\* A slip in the operands: the left one negated, the right one kept.
poc_emit_subtract_swapped(d1, d2, smooth) == Call2("max", d2, <<"-">> \o d1)

\* Both branches of the test on smooth format the same text.
poc_emit_subtract(d1, d2, smooth) ==
    IF smooth > 0
    THEN Call2("max", d1, <<"-">> \o d2)
    ELSE Call2("max", d1, <<"-">> \o d2)

poc_emit_intersect(d1, d2, smooth) == Call2("max", d1, d2)

poc_translate_point(p_var, offset) == <<"(">> \o p_var \o <<"-">> \o Vec3Lit(offset) \o <<")">>

\* The proof of concept looks at y before x.
poc_axis_name(axis) ==
    IF axis[2] > AxisThreshold THEN "y"
    ELSE IF axis[1] > AxisThreshold THEN "x"
    ELSE "z"

poc_rotate_point(p_var, axis, angle_deg) ==
    LET rad == to_radians(F32(angle_deg))
        neg_rad == Neg(rad)
    IN  Call2("rotate_" \o poc_axis_name(axis), p_var, <<Fmt4F(neg_rad)>>)

RECURSIVE poc_emit_expression(_, _)
poc_emit_expression(n, p_var) ==
    CASE IsPrimitive(n) -> poc_emit_primitive(n, p_var)
      [] n.op = "Union" ->
           poc_emit_union(poc_emit_expression(n.a, p_var), poc_emit_expression(n.b, p_var),
                          n.smooth)
      [] n.op = "Subtract" ->
           poc_emit_subtract(poc_emit_expression(n.a, p_var), poc_emit_expression(n.b, p_var),
                             n.smooth)
      [] n.op = "Intersect" ->
           poc_emit_intersect(poc_emit_expression(n.a, p_var), poc_emit_expression(n.b, p_var),
                              n.smooth)
      [] n.op = "Translate" -> poc_emit_expression(n.target, poc_translate_point(p_var, n.offset))
      [] n.op = "Rotate" ->
           poc_emit_expression(n.target, poc_rotate_point(p_var, n.axis, n.angle_deg))

PocMapHead ==
    << "fn", "map", "(", "p_in", ":", "vec3<f32>", ")", "->", "f32", "{", "return" >>

poc_generate(root) == PocMapHead \o poc_emit_expression(root, <<"p_in">>) \o <<";", "}">>


(* ----------------- script evaluation and code generation -------------- *)

Progs == {"modeler", "poc"}

Half == Unit \div 2

Radii == {Unit, Half}
Blends == {Half, 0 - Half}
\* An offset of whole units and one with a fifth decimal (0.12345).
Offsets == {<<2 * Unit, 0, 0>>, <<12345, 0, 0>>}
Angles == {90 * Unit, 0}
Colours == {<<Unit, 0, 0>>, <<0, Unit, 0>>}
\* Axis vectors no builder produces: negative units, two components above
\* the threshold, none above it.
OddAxes == {<<0 - Unit, 0, 0>>, <<0, 0 - Unit, 0>>, <<Unit, Unit, 0>>, <<Half, Half, 0>>}

\* The primitives each program registers with the script engine.
Primitives(p) ==
    {new_sphere(r) : r \in Radii} \cup {new_box(Unit, Unit, Unit)}
        \cup (IF p = "modeler"
              THEN {new_cylinder(Half, 2 * Unit), new_torus(Unit, Half \div 2)}
              ELSE {})

\* The values a script passes as the argument of a combinator.
Arguments == {new_sphere(Half), new_box(Unit, Unit, Unit), translate(new_sphere(Half), 2 * Unit, 0, 0)}

NoArgs == [method |-> "none", other |-> Nil, k |-> 0, v |-> <<0, 0, 0>>, deg |-> 0]

\* The builder methods of each program's SdfNode with their arguments (the
\* modeler's smooth_subtract is public but not registered with the engine).
Calls(p) ==
    {[NoArgs EXCEPT !.method = m, !.other = o] :
        m \in {"union", "subtract"} \cup (IF p = "poc" THEN {"intersect"} ELSE {}),
        o \in Arguments}
        \cup {[NoArgs EXCEPT !.method = m, !.other = o, !.k = k] :
                m \in {"smooth_union", "smooth_subtract"}, o \in Arguments, k \in Blends}
        \cup {[NoArgs EXCEPT !.method = "translate", !.v = v] : v \in Offsets}
        \cup {[NoArgs EXCEPT !.method = m, !.deg = d] :
                m \in {"rotate_x", "rotate_y", "rotate_z"}, d \in Angles}
        \cup (IF p = "modeler"
              THEN {[NoArgs EXCEPT !.method = m] : m \in {"mirror_x", "mirror_y", "mirror_z"}}
                      \cup {[NoArgs EXCEPT !.method = "color", !.v = c] : c \in Colours}
              ELSE {})

\* self.method(args)
Invoke(c, self) ==
    CASE c.method = "union" -> union(self, c.other)
      [] c.method = "smooth_union" -> smooth_union(self, c.other, c.k)
      [] c.method = "subtract" -> subtract(self, c.other)
      [] c.method = "smooth_subtract" -> smooth_subtract(self, c.other, c.k)
      [] c.method = "intersect" -> intersect(self, c.other)
      [] c.method = "translate" -> translate(self, c.v[1], c.v[2], c.v[3])
      [] c.method = "rotate_x" -> rotate_x(self, c.deg)
      [] c.method = "rotate_y" -> rotate_y(self, c.deg)
      [] c.method = "rotate_z" -> rotate_z(self, c.deg)
      [] c.method = "mirror_x" -> mirror_x(self)
      [] c.method = "mirror_y" -> mirror_y(self)
      [] c.method = "mirror_z" -> mirror_z(self)
      [] c.method = "color" -> color(self, c.v[1], c.v[2], c.v[3])

\* The values built from the public variants directly.
DirectValues(p, self) ==
    {SdfOp_Intersect(self, o, k) : o \in Arguments, k \in Blends \cup {0}}
        \cup {SdfOp_Rotate(self, ax, 90 * Unit) : ax \in OddAxes}
        \cup (IF p = "modeler" THEN {SdfOp_Mirror(self, <<Unit, Unit, 0>>)} ELSE {})

GenInit ==
    /\ prog = "modeler"
    /\ node = Nil
    /\ ret = Nil
    /\ call = NoArgs
    /\ wgsl = <<>>
    /\ ssaa = "Off"

\* A script run starts with a primitive constructor.
EvalPrimitive ==
    \E p \in Progs : \E leaf \in Primitives(p) :
        /\ prog' = p
        /\ node' = leaf
        /\ ret' = Nil
        /\ call' = NoArgs
        /\ wgsl' = <<>>
        /\ ssaa' = "Off"
        /\ UNCHANGED <<tabVars, emitVars>>

\* node.method(args): the receiver stays as it is, the result is a new value.
CallBuilder ==
    /\ node # Nil
    /\ wgsl = <<>>
    /\ \E c \in Calls(prog) :
          /\ Size(Invoke(c, node)) <= MaxNodes
          /\ ret' = Invoke(c, node)
          /\ call' = c
    /\ UNCHANGED <<prog, node, wgsl, ssaa, tabVars, emitVars>>

\* SdfNode { op: SdfOp::... } written out, with the node as its (left) child.
Construct ==
    /\ node # Nil
    /\ wgsl = <<>>
    /\ \E r \in DirectValues(prog, node) :
          /\ Size(r) <= MaxNodes
          /\ ret' = r
    /\ call' = NoArgs
    /\ UNCHANGED <<prog, node, wgsl, ssaa, tabVars, emitVars>>

\* let node = <the value returned>;
Assign ==
    /\ ret # Nil
    /\ wgsl = <<>>
    /\ node' = ret
    /\ ret' = Nil
    /\ call' = NoArgs
    /\ UNCHANGED <<prog, wgsl, ssaa, tabVars, emitVars>>

\* The script's value is handed to the generator; the scope is dropped.
Generate ==
    /\ prog = "modeler"
    /\ node # Nil
    /\ wgsl = <<>>
    /\ \E level \in SsaaLevels :
          /\ wgsl' = generate(node, level)
          /\ ssaa' = level
    /\ ret' = Nil
    /\ call' = NoArgs
    /\ UNCHANGED <<prog, node, tabVars, emitVars>>

PocGenerate ==
    /\ prog = "poc"
    /\ node # Nil
    /\ wgsl = <<>>
    /\ wgsl' = poc_generate(node)
    /\ ret' = Nil
    /\ call' = NoArgs
    /\ UNCHANGED <<prog, node, ssaa, tabVars, emitVars>>

GenNext == EvalPrimitive \/ CallBuilder \/ Construct \/ Assign \/ Generate \/ PocGenerate

(* ------------------- the modeler tab and its renderer ------------------- *)

\* Option<T>: None is the empty sequence, Some(x) the sequence of x alone.
None == <<>>
Some(x) == <<x>>

\* The text of shader_template.wgsl around its placeholder line.
Placeholder == "// {{GENERATED_CODE_HERE}}"
Template == <<"// template: uniforms, vs_main, sd_*, op_*, rotate_*", Placeholder,
              "// template: render_scene">>

\* A slip in the merge: the new text put after the pattern, which stays.
RECURSIVE replace_keeping_pattern(_, _, _)
replace_keeping_pattern(text, pattern, to) ==
    IF text = <<>> THEN <<>>
    ELSE (IF Head(text) = pattern THEN <<pattern>> \o to ELSE <<Head(text)>>)
             \o replace_keeping_pattern(Tail(text), pattern, to)

\* str::replace: every occurrence of the pattern gives way to the new text.
RECURSIVE replace(_, _, _)
replace(text, pattern, to) ==
    IF text = <<>> THEN <<>>
    ELSE (IF Head(text) = pattern THEN to ELSE <<Head(text)>>)
             \o replace(Tail(text), pattern, to)

\* What main.rhai can hold: a script that returns a node, one that does not
\* evaluate to a node, or nothing readable.
Files == {"scene", "broken", "missing"}

\* The node the good script returns: a pipe with a hole.
Scene == subtract(new_cylinder(Half, 2 * Unit), new_cylinder(Half \div 2, 3 * Unit))

Ok(text) == [ok |-> TRUE, wgsl |-> text, error |-> ""]
Err(e) == [ok |-> FALSE, wgsl |-> <<>>, error |-> e]

\* SdfTab::compile_project, as the Result it returns; on Ok it has also set
\* last_applied_ssaa to the level it read from the settings.
compile_project(path, file, level) ==
    IF path = None THEN Err("No project opened")
    ELSE IF file = "missing" THEN Err("Failed to read main.rhai: not found")
    ELSE IF file = "broken" THEN Err("Rhai Error: syntax error")
    ELSE Ok(replace(Template, Placeholder, generate(Scene, level)))

\* SdfRenderResources::create: the GPU objects of creation k, built from the
\* shader text; the bind group binds the uniform buffer made with it, and the
\* buffer starts zeroed.
create(k, shader_source) ==
    [pipeline |-> k, bind_group |-> k, uniform_buffer |-> k,
     source |-> shader_source, uniforms |-> "zeroed"]

\* The RwLock around the slot: write() waits for everyone, read() for a writer.
CanWriteIgnoringReaders == lock.writer = 0
CanWrite == lock.writer = 0 /\ lock.readers = 0
CanRead == lock.writer = 0


\* The levels the settings page is seen to pick: no anti-aliasing and one grid.
TabLevels == {"Off", "Ssaa2x2"}

\* The callback sdf_view queues: its copy of the shader, where the renderer
\* stands in it, and the pipeline its pass has set.
SdfCallback(shader_source) == [pc |-> "queued", shader_source |-> shader_source, pipeline |-> 0]
NoDraw == [pipeline |-> 0, bind_group |-> 0, uniform_buffer |-> 0]

\* SdfTab::new over settings the settings page may already have changed, with
\* nothing queued and nothing drawn.
TabInit ==
    /\ sdf_resources = None
    /\ lock = [writer |-> 0, readers |-> 0]
    /\ current_shader = <<>>
    /\ project_path = None
    /\ compiler_error = None
    /\ settings \in TabLevels
    /\ last_applied_ssaa = settings
    /\ main_rhai = "scene"
    /\ ui_pc = "idle"
    /\ click = "none"
    /\ callbacks = <<>>
    /\ created = 0
    /\ last_draw = NoDraw

\* No call of emit_expression is under way.
EmitIdle ==
    /\ emit_stack = <<>>
    /\ emit_visited = <<>>

Init == GenInit /\ TabInit /\ EmitIdle

\* The generator on its own, beside a tab left as it was constructed.
GenStart == Init /\ settings = "Off"

GenSpec == GenStart /\ [][GenNext]_vars

Paths == {"project"}

\* SdfPlugin::on_settings_ui: the combo box picks another level.
on_settings_ui ==
    /\ ui_pc = "idle"
    /\ \E level \in TabLevels \ {settings} : settings' = level
    /\ UNCHANGED <<sdf_resources, lock, current_shader, project_path, compiler_error,
                   last_applied_ssaa, main_rhai, ui_pc, callbacks, created, last_draw, click, genVars, emitVars>>

\* Between two frames somebody saves, breaks or removes main.rhai.
write_main_rhai ==
    /\ ui_pc = "idle"
    /\ \E file \in Files \ {main_rhai} : main_rhai' = file
    /\ UNCHANGED <<sdf_resources, lock, current_shader, project_path, compiler_error,
                   last_applied_ssaa, settings, ui_pc, callbacks, created, last_draw, click, genVars, emitVars>>

\* A slip in the bookkeeping: the level taken as applied whether the compile
\* succeeded or not, so that a failed attempt is not repeated.
ui_detect_settings_change_latching ==
    /\ ui_pc = "idle"
    /\ click' \in {"none", "open"} \cup (IF project_path # None THEN {"run"} ELSE {})
    /\ IF settings # last_applied_ssaa /\ project_path # None
       THEN LET r == compile_project(project_path, main_rhai, settings)
            IN  /\ last_applied_ssaa' = settings
                /\ IF r.ok
                   THEN /\ current_shader' = r.wgsl
                        /\ ui_pc' = "auto_write"
                   ELSE /\ ui_pc' = "top_bar"
                        /\ UNCHANGED current_shader
       ELSE /\ ui_pc' = "top_bar"
            /\ UNCHANGED <<current_shader, last_applied_ssaa>>
    /\ UNCHANGED <<sdf_resources, lock, project_path, compiler_error, settings, main_rhai,
                   callbacks, created, last_draw, genVars, emitVars>>

\* SdfTab::ui, "Detect Settings Change", in a frame whose input clicks one
\* button or none: up to the point where it asks for the slot's write lock.
ui_detect_settings_change ==
    /\ ui_pc = "idle"
    /\ click' \in {"none", "open"} \cup (IF project_path # None THEN {"run"} ELSE {})
    /\ IF settings # last_applied_ssaa /\ project_path # None
       THEN LET r == compile_project(project_path, main_rhai, settings)
            IN  IF r.ok
                THEN /\ current_shader' = r.wgsl
                     /\ last_applied_ssaa' = settings
                     /\ ui_pc' = "auto_write"
                ELSE /\ ui_pc' = "top_bar"
                     /\ UNCHANGED <<current_shader, last_applied_ssaa>>
       ELSE /\ ui_pc' = "top_bar"
            /\ UNCHANGED <<current_shader, last_applied_ssaa>>
    /\ UNCHANGED <<sdf_resources, lock, project_path, compiler_error, settings, main_rhai,
                   callbacks, created, last_draw, genVars, emitVars>>

\* *self.sdf_resources.write() = None, once the lock is granted; the turn
\* goes on where it stood.
ui_clear_resources ==
    /\ ui_pc \in {"auto_write", "click_write"}
    /\ CanWrite
    /\ sdf_resources' = None
    /\ ui_pc' = IF ui_pc = "auto_write" THEN "top_bar" ELSE "viewport"
    /\ UNCHANGED <<lock, current_shader, project_path, compiler_error, last_applied_ssaa,
                   settings, main_rhai, callbacks, created, last_draw, click, genVars, emitVars>>

\* A slip in compile_project: the level stored before the script is read, so
\* that a failed attempt moves it too.
ui_compile_level_first(path) ==
    LET r == compile_project(path, main_rhai, settings)
    IN  /\ project_path' = path
        /\ last_applied_ssaa' = settings
        /\ IF r.ok
           THEN /\ compiler_error' = None
                /\ current_shader' = r.wgsl
                /\ ui_pc' = "click_write"
           ELSE /\ compiler_error' = Some(r.error)
                /\ ui_pc' = "viewport"
                /\ UNCHANGED current_shader

\* What "Open Project..." and "Compile & Run" do with compile_project's Result.
ui_compile(path) ==
    LET r == compile_project(path, main_rhai, settings)
    IN  /\ project_path' = path
        /\ IF r.ok
           THEN /\ compiler_error' = None
                /\ current_shader' = r.wgsl
                /\ last_applied_ssaa' = settings
                /\ ui_pc' = "click_write"
           ELSE /\ compiler_error' = Some(r.error)
                /\ ui_pc' = "viewport"
                /\ UNCHANGED <<current_shader, last_applied_ssaa>>

\* SdfTab::ui, "Top Bar": no click (or a cancelled dialog), a picked folder,
\* or Compile & Run, which is there only with a project.
ui_top_bar ==
    /\ ui_pc = "top_bar"
    /\ CASE click = "open" -> \E path \in Paths : ui_compile(Some(path))
         [] click = "run" -> ui_compile(project_path)
         [] OTHER -> /\ ui_pc' = "viewport"
                     /\ UNCHANGED <<project_path, compiler_error, current_shader,
                                    last_applied_ssaa>>
    /\ click' = "none"
    /\ UNCHANGED <<sdf_resources, lock, settings, main_rhai, callbacks, created, last_draw,
                   genVars, emitVars>>

\* SdfTab::ui, "3D Viewport": without a shader only a label; with one,
\* sdf_view queues a callback that carries a copy of the shader.
ui_viewport ==
    /\ ui_pc = "viewport"
    /\ IF current_shader = <<>>
       THEN UNCHANGED callbacks
       ELSE /\ Len(callbacks) < MaxCallbacks
            /\ callbacks' = Append(callbacks, SdfCallback(current_shader))
    /\ ui_pc' = "idle"
    /\ UNCHANGED <<sdf_resources, lock, current_shader, project_path, compiler_error,
                   last_applied_ssaa, settings, main_rhai, created, last_draw, click, genVars, emitVars>>

\* The renderer works on the oldest callback; At(pc) says where it stands in it.
At(pc) == callbacks # <<>> /\ callbacks[1].pc = pc

\* SdfCallback::prepare takes the write lock; over a filled slot it drops it
\* at once, over an empty one it keeps it and sets out to create.
prepare_write ==
    /\ At("queued")
    /\ CanWrite
    /\ IF sdf_resources = None
       THEN /\ created < MaxCreated
            /\ lock' = [lock EXCEPT !.writer = 1]
            /\ callbacks' = [callbacks EXCEPT ![1].pc = "creating"]
       ELSE /\ callbacks' = [callbacks EXCEPT ![1].pc = "unlocked"]
            /\ UNCHANGED lock
    /\ UNCHANGED <<sdf_resources, current_shader, project_path, compiler_error,
                   last_applied_ssaa, settings, main_rhai, ui_pc, created, last_draw,
                   click, genVars, emitVars>>

\* SdfRenderResources::create comes back, with the objects or without; the
\* block ends and the write lock goes.
prepare_create ==
    /\ At("creating")
    /\ \E built \in BOOLEAN :
          IF built
          THEN /\ sdf_resources' = Some(create(created + 1, callbacks[1].shader_source))
               /\ created' = created + 1
               /\ callbacks' = [callbacks EXCEPT ![1].pc = "unlocked"]
          ELSE /\ callbacks' = [callbacks EXCEPT ![1].pc = "create_failed"]
               /\ UNCHANGED <<sdf_resources, created>>
    /\ lock' = [lock EXCEPT !.writer = 0]
    /\ UNCHANGED <<current_shader, project_path, compiler_error, last_applied_ssaa,
                   settings, main_rhai, ui_pc, last_draw, click, genVars, emitVars>>

\* SdfCallback::prepare, second half: under the read lock the frame's
\* uniforms are written to the published buffer, if there is one.
prepare_uniforms ==
    /\ At("unlocked") \/ At("create_failed")
    /\ CanRead
    /\ sdf_resources' = IF sdf_resources = None THEN None
                        ELSE Some([sdf_resources[1] EXCEPT !.uniforms = "written"])
    /\ callbacks' = [callbacks EXCEPT ![1].pc = "prepared"]
    /\ UNCHANGED <<lock, current_shader, project_path, compiler_error, last_applied_ssaa,
                   settings, main_rhai, ui_pc, created, last_draw, click, genVars, emitVars>>

\* SdfCallback::paint takes the read lock; over an empty slot it is done,
\* over a filled one it sets the pipeline.
paint_set_pipeline ==
    /\ At("prepared")
    /\ CanRead
    /\ IF sdf_resources = None
       THEN /\ callbacks' = Tail(callbacks)
            /\ UNCHANGED lock
       ELSE /\ callbacks' = [callbacks EXCEPT ![1].pc = "painting",
                                              ![1].pipeline = sdf_resources[1].pipeline]
            /\ lock' = [lock EXCEPT !.readers = @ + 1]
    /\ UNCHANGED <<sdf_resources, current_shader, project_path, compiler_error,
                   last_applied_ssaa, settings, main_rhai, ui_pc, created, last_draw,
                   click, genVars, emitVars>>

\* SdfCallback::paint, the rest: the bind group is set, the quad is drawn and
\* the read lock goes. The objects are read through the slot.
paint_draw ==
    /\ At("painting")
    /\ last_draw' =
          IF sdf_resources = None
          THEN [pipeline |-> callbacks[1].pipeline, bind_group |-> 0, uniform_buffer |-> 0]
          ELSE [pipeline |-> callbacks[1].pipeline,
                bind_group |-> sdf_resources[1].bind_group,
                uniform_buffer |-> sdf_resources[1].uniform_buffer]
    /\ lock' = [lock EXCEPT !.readers = @ - 1]
    /\ callbacks' = Tail(callbacks)
    /\ UNCHANGED <<sdf_resources, current_shader, project_path, compiler_error,
                   last_applied_ssaa, settings, main_rhai, ui_pc, created, click, genVars, emitVars>>

Next ==
    \/ on_settings_ui
    \/ write_main_rhai
    \/ ui_detect_settings_change
    \/ ui_clear_resources
    \/ ui_top_bar
    \/ ui_viewport
    \/ prepare_write
    \/ prepare_create
    \/ prepare_uniforms
    \/ paint_set_pipeline
    \/ paint_draw

Spec == Init /\ [][Next]_vars

(* ------------------- the recursion of emit_expression ------------------ *)

\* A slip in a combinator's arm: the left child emitted for both operands.
RecursesInto_left_twice(n) ==
    IF IsCombinator(n) THEN <<"a", "a">>
    ELSE IF IsTransform(n) THEN <<"target">>
    ELSE <<>>

\* The children an arm of emit_expression calls itself on, in call order
\* (the same in both programs): a and b, or target, or none for a primitive.
RecursesInto(n) ==
    IF IsCombinator(n) THEN <<"a", "b">>
    ELSE IF IsTransform(n) THEN <<"target">>
    ELSE <<>>

\* The node a path of child names leads to.
RECURSIVE NodeAt(_, _)
NodeAt(root, path) ==
    IF path = <<>> THEN root ELSE NodeAt(root[Head(path)], Tail(path))

\* One builder call per variant, for the trees handed to the generator.
EmitCalls(p) ==
    {c \in Calls(p) :
        /\ c.method \in {"union", "smooth_subtract", "intersect", "translate", "rotate_y",
                          "mirror_x", "color"}
        /\ c.other \in {Nil, new_box(Unit, Unit, Unit), translate(new_sphere(Half), 2 * Unit, 0, 0)}
        /\ c.k \in {0, Half}
        /\ c.v \in {<<0, 0, 0>>, <<2 * Unit, 0, 0>>, <<Unit, 0, 0>>}
        /\ c.deg \in {0, 90 * Unit} /\ (c.method = "rotate_y" => c.deg # 0)}

EmitDirect(p, self) ==
    {d \in DirectValues(p, self) :
        d.op = "Intersect" /\ d.b = new_box(Unit, Unit, Unit) /\ d.smooth = 0}

\* The trees built with k further calls, of one node more than a script run
\* of the other specification follows: a combinator with a transformed child
\* or below a transform has four nodes.
RECURSIVE Grow(_, _)
Grow(p, k) ==
    IF k = 0 THEN Primitives(p)
    ELSE LET prev == Grow(p, k - 1)
             next == {Invoke(c, t) : c \in EmitCalls(p), t \in prev}
                         \cup UNION {EmitDirect(p, t) : t \in prev}
         IN  prev \cup {t \in next : Size(t) <= MaxNodes + 1}

EmitTrees(p) == Grow(p, MaxNodes)

\* generate is called on a tree: the call emit_expression(root, "p_in") is
\* the first to run.
EmitStart ==
    /\ prog \in Progs
    /\ node \in EmitTrees(prog)
    /\ ret = Nil
    /\ call = NoArgs
    /\ wgsl = <<>>
    /\ ssaa = "Off"
    /\ TabInit
    /\ settings = "Off"
    /\ emit_stack = << <<>> >>
    /\ emit_visited = <<>>

\* One call of emit_expression: the match on the node's variant, and the
\* calls its arm makes on the node's children before it returns.
EmitExpression ==
    /\ emit_stack # <<>>
    /\ wgsl = <<>>
    /\ LET path == Head(emit_stack)
           children == RecursesInto(NodeAt(node, path))
       IN  /\ emit_visited' = Append(emit_visited, path)
           /\ emit_stack' = [i \in 1..Len(children) |-> Append(path, children[i])]
                                \o Tail(emit_stack)
    /\ UNCHANGED <<genVars, tabVars>>

\* The outermost call has returned: generate formats the text around the
\* expression and returns it.
EmitReturn ==
    /\ emit_stack = <<>>
    /\ emit_visited # <<>>
    /\ wgsl = <<>>
    /\ IF prog = "modeler"
       THEN \E level \in SsaaLevels :
                /\ wgsl' = generate(node, level)
                /\ ssaa' = level
       ELSE /\ wgsl' = poc_generate(node)
            /\ ssaa' = ssaa
    /\ UNCHANGED <<prog, node, ret, call, tabVars, emitVars>>

EmitNext == EmitExpression \/ EmitReturn

\* A call of generate runs on: the thread that made it is not stopped.
EmitSpec == EmitStart /\ [][EmitNext]_vars /\ WF_vars(EmitNext)

(* ----------------------- reading generated text ----------------------- *)

\* The first index at or after i where the text holds tok; 0 when none.
IndexFrom(text, tok, i) ==
    LET hits == {k \in i..Len(text) : text[k] = tok}
    IN  IF hits = {} THEN 0 ELSE CHOOSE k \in hits : \A m \in hits : k <= m

Count(text, tok) == Cardinality({i \in 1..Len(text) : text[i] = tok})

\* The expression map returns: what stands between the first return and
\* the semicolon that ends the statement.
MapExprOf(text) ==
    LET r == IndexFrom(text, "return", 1)
    IN  SubSeq(text, r + 1, IndexFrom(text, ";", r) - 1)

\* The function whose argument is the sampled point p_in itself: the rewrite
\* the root applied.
RootRewriteOf(expr) == expr[IndexFrom(expr, "p_in", 1) - 2]

\* The fragment entry point: the text from @fragment on.
FsMainOf(text) == SubSeq(text, IndexFrom(text, "@fragment", 1), Len(text))

\* The decimal literals of the grid sizes and sample counts.
IntLit(k) == ToString(k)
FloatLit(k) == ToString(k) \o ".0"

Generated == wgsl # <<>>
ByModeler == Generated /\ prog = "modeler"
ByPoc == Generated /\ prog = "poc"
GridSize == to_u32(ssaa)


(* ------------------- the fragment entry point (C1, C2) ---------------- *)

\* Where the accumulated colour is divided: the index of total_color in
\* "total_color / <divisor>".
DivIdx(text) == CHOOSE i \in 1..(Len(text) - 1) : text[i] = "total_color" /\ text[i + 1] = "/"

\* Where the shader constant n is declared: the index of let in "let n".
LetNIdx(text) == CHOOSE i \in 1..(Len(text) - 1) : text[i] = "let" /\ text[i + 1] = "n"

\* C1 as the spec states it: for a grid of n x n samples, n in {2, 4, 8}, the
\* entry point divides the accumulated colour by the literal n*n written into
\* the text (4, 16, 64).
C1_DivisorIsLiteralSquare ==
    (ByModeler /\ GridSize > 1) =>
        wgsl[DivIdx(wgsl) + 2] \in {IntLit(GridSize * GridSize), FloatLit(GridSize * GridSize)}

\* C1 amended: for a grid of n x n samples, n in {2, 4, 8}, the entry point
\* divides the accumulated colour by the expression (n * n), where n is the
\* shader constant declared once as "let n: f32 = <n>.0" with the grid size
\* written into the text; the divisor's value is n*n, and the literal n*n
\* stands nowhere in the text.
C1_DivisorIsSquareOfShaderConstant ==
    (ByModeler /\ GridSize > 1) =>
        LET i == DivIdx(wgsl)
            j == LetNIdx(wgsl)
        IN  /\ SubSeq(wgsl, i + 2, i + 7) = <<"(", "n", "*", "n", ")", ",">>
            /\ Cardinality({k \in 1..(Len(wgsl) - 1) : wgsl[k] = "let" /\ wgsl[k + 1] = "n"}) = 1
            /\ j < i
            /\ SubSeq(wgsl, j + 2, j + 6) = <<":", "f32", "=", FloatLit(GridSize), ";">>
            /\ Count(wgsl, IntLit(GridSize * GridSize)) = 0
            /\ Count(wgsl, FloatLit(GridSize * GridSize)) = 0

\* C1's case: the text generated for the 4x4 grid.
C1_Witness == ByModeler /\ ssaa = "Ssaa4x4" /\ wgsl[LetNIdx(wgsl) + 5] = "4.0"

\* The loop header that starts at index f: its variable, start, bound, step.
LoopCounts(text, f, bound) ==
    LET v == text[f + 3]
    IN  /\ SubSeq(text, f, f + 2) = <<"for", "(", "var">>
        /\ SubSeq(text, f + 4, f + 8) = <<":", "i32", "=", "0", ";">>
        /\ SubSeq(text, f + 9, f + 12) = <<v, "<", bound, ";">>
        /\ SubSeq(text, f + 13, f + 19) = <<v, "=", v, "+", "1", ")", "{">>

\* C2: the shape of the entry point is chosen from the level when the text
\* is generated: for Off no loop and one evaluation of the scene; for a grid
\* of size n in {2, 4, 8} exactly two loops, one inside the other, each over
\* 0..n-1 with the literal bound n, and one evaluation of the scene inside
\* both (n*n evaluations).
C2_ShapeFollowsLevel ==
    ByModeler =>
        LET fs == FsMainOf(wgsl)
            r == IndexFrom(fs, "render_scene", 1)
            f1 == IndexFrom(fs, "for", 1)
            f2 == IndexFrom(fs, "for", f1 + 1)
        IN  /\ Count(fs, "render_scene") = 1
            /\ IF GridSize = 1
               THEN Count(fs, "for") = 0
               ELSE /\ GridSize \in {2, 4, 8}
                    /\ Count(fs, "for") = 2
                    /\ f1 < f2 /\ f2 < r
                    /\ \A i \in f1..r : fs[i] # "}"
                    /\ LoopCounts(fs, f1, IntLit(GridSize))
                    /\ LoopCounts(fs, f2, IntLit(GridSize))
                    /\ fs[f1 + 3] # fs[f2 + 3]

\* C2's case: a text generated for Off and one generated for the 8x8 grid.
C2_Witness ==
    /\ ByModeler
    /\ ssaa = "Ssaa8x8"
    /\ Count(wgsl, "for") = 2
    /\ wgsl[IndexFrom(wgsl, "for", 1) + 11] = "8"

C2_WitnessOff == ByModeler /\ ssaa = "Off" /\ Count(wgsl, "for") = 0


(* ------------------------ the Rotate node (C7) ------------------------ *)

\* The first of x, y, z whose absolute value exceeds 0.9, z when none does.
FirstByAbs(axis) ==
    IF Abs(axis[1]) > AxisThreshold THEN "x"
    ELSE IF Abs(axis[2]) > AxisThreshold THEN "y"
    ELSE "z"

\* C7 as the spec states it: the rotation helper of a Rotate node is that of
\* the first of x, y, z whose absolute value exceeds 0.9, z when none does,
\* for every axis vector.
C7_AxisByAbsoluteValue ==
    (Generated /\ node.op = "Rotate") =>
        RootRewriteOf(MapExprOf(wgsl)) = "rotate_" \o FirstByAbs(node.axis)

\* C7 amended: the components are compared signed, without an absolute
\* value.  The modeler takes x when x > 0.9, else y when y > 0.9, else z; the
\* proof of concept takes y when y > 0.9, else x when x > 0.9, else z.  A
\* negative unit x or y axis therefore selects rotate_z in both, and an axis
\* with x and y both above 0.9 selects rotate_x in the modeler and rotate_y
\* in the proof of concept.
C7_AxisBySignedValue ==
    (Generated /\ node.op = "Rotate") =>
        LET x == node.axis[1] > AxisThreshold
            y == node.axis[2] > AxisThreshold
            helper == RootRewriteOf(MapExprOf(wgsl))
        IN  /\ prog = "modeler" => helper = (IF x THEN "rotate_x" ELSE IF y THEN "rotate_y" ELSE "rotate_z")
            /\ prog = "poc" => helper = (IF y THEN "rotate_y" ELSE IF x THEN "rotate_x" ELSE "rotate_z")
            /\ (node.axis[1] < 0 /\ ~y) => helper = "rotate_z"

\* C7's case: the modeler generated the text of a rotation about -x.
C7_Witness ==
    /\ ByModeler
    /\ node.op = "Rotate"
    /\ node.axis = <<0 - Unit, 0, 0>>
    /\ RootRewriteOf(MapExprOf(wgsl)) = "rotate_z"

\* ... and the proof of concept that of a rotation about (1, 1, 0).
C7_WitnessPoc ==
    /\ ByPoc
    /\ node.op = "Rotate"
    /\ node.axis = <<Unit, Unit, 0>>
    /\ RootRewriteOf(MapExprOf(wgsl)) = "rotate_y"

(* --------------------- the combinators (C8, C9, C10) ------------------ *)

\* What a program generates for a tree at the level of the current text.
TextFor(n) == IF prog = "modeler" THEN generate(n, ssaa) ELSE poc_generate(n)

\* The expressions of the two children, at the sampled point.
ChildExprs(n) ==
    IF prog = "modeler"
    THEN <<emit_expression(n.a, <<"p_in">>), emit_expression(n.b, <<"p_in">>)>>
    ELSE <<poc_emit_expression(n.a, <<"p_in">>), poc_emit_expression(n.b, <<"p_in">>)>>

\* C8: for a Subtract node the smooth variant is selected as for Union: the
\* text is that of the crisp subtraction exactly when blend <= 0, and with
\* blend > 0 it is another text, a call that ends with the blend literal.
C8_SubtractSmoothIffBlend ==
    (Generated /\ node.op = "Subtract") =>
        LET e == MapExprOf(wgsl)
            crisp == MapExprOf(TextFor([node EXCEPT !.smooth = 0]))
        IN  IF node.smooth > 0
            THEN e # crisp /\ e[1] # crisp[1] /\ e[Len(e) - 1] = Fmt4(node.smooth)
            ELSE e = crisp

\* C9: a Union node with blend 0 is emitted as the crisp op_union over the two
\* child expressions, one with blend > 0 as op_union_smooth over the two child
\* expressions and the blend; union builds blend 0 and smooth_union(k) blend k.
C9_UnionCrispOrSmooth ==
    /\ (ByModeler /\ node.op = "Union") =>
          LET e == MapExprOf(wgsl)
              c == ChildExprs(node)
          IN  /\ node.smooth = 0 =>
                    /\ e = Call2("op_union", c[1], c[2])
                    /\ e[1] = "op_union"
                    /\ Len(e) = Len(c[1]) + Len(c[2]) + 4
              /\ node.smooth > 0 =>
                    /\ e = Call3("op_union_smooth", c[1], c[2], <<Fmt4(node.smooth)>>)
                    /\ e[1] = "op_union_smooth"
                    /\ e[Len(e) - 1] = Fmt4(node.smooth)
    /\ call.method = "union" =>
          ret.op = "Union" /\ ret.smooth = 0 /\ ret.a = node /\ ret.b = call.other
    /\ call.method = "smooth_union" =>
          ret.op = "Union" /\ ret.smooth = call.k /\ ret.a = node /\ ret.b = call.other

\* C9's case: the text of a tree that union built, a crisp union.
C9_Witness ==
    /\ ByModeler
    /\ node.op = "Union"
    /\ node.smooth = 0
    /\ MapExprOf(wgsl)[1] = "op_union"

C9_WitnessSmooth ==
    /\ ByModeler
    /\ node.op = "Union"
    /\ node.smooth > 0
    /\ MapExprOf(wgsl)[1] = "op_union_smooth"

C9_WitnessBuilder == call.method = "smooth_union" /\ ret.smooth = Half

\* C10: an Intersect node is emitted as the crisp combinator (op_intersect in
\* the modeler, max in the proof of concept) over the two child expressions,
\* and the text is the same for every value of blend.
C10_IntersectAlwaysCrisp ==
    (Generated /\ node.op = "Intersect") =>
        LET e == MapExprOf(wgsl)
            c == ChildExprs(node)
        IN  /\ e = Call2(IF prog = "modeler" THEN "op_intersect" ELSE "max", c[1], c[2])
            /\ \A k \in Blends \cup {0} : wgsl = TextFor([node EXCEPT !.smooth = k])

\* C10's case: the text of an Intersect node with a positive blend.
C10_Witness ==
    /\ ByModeler
    /\ node.op = "Intersect"
    /\ node.smooth > 0
    /\ MapExprOf(wgsl)[1] = "op_intersect"



(* ------------------ the tab: failures, the slot, the lock ------------------ *)

\* The compile this step makes, when it makes one: the automatic one at the
\* head of a turn, or the one a clicked button asks for.
AutoCompileDue == ui_pc = "idle" /\ settings # last_applied_ssaa /\ project_path # None
ClickCompileDue == ui_pc = "top_bar" /\ click \in {"open", "run"}
PathCompiled == IF ui_pc = "top_bar" /\ click = "open" THEN project_path' ELSE project_path
Attempt == compile_project(PathCompiled, main_rhai, settings)

\* C3: whenever a step of the tab makes a compile attempt and the script does
\* not yield a node (unreadable, or an evaluation error), the step leaves the
\* attempt's message in compiler_error and leaves the shader text and the
\* published resources as they were; this in the automatic path and in both
\* button paths.
C3_FailureSurfacedInEveryPath ==
    [][ ((AutoCompileDue \/ ClickCompileDue) /\ ui_pc' # ui_pc /\ ~Attempt.ok)
            => /\ compiler_error' = Some(Attempt.error)
               /\ current_shader' = current_shader
               /\ sdf_resources' = sdf_resources ]_vars

\* C4: the objects a draw pass has used, and those a pass in progress has
\* set and is about to set, come from one creation: the published set stays
\* in place, whole, for as long as the pass reads it.
C4_DrawUsesOneCreation ==
    /\ last_draw # NoDraw =>
          /\ last_draw.pipeline > 0
          /\ last_draw.bind_group = last_draw.pipeline
          /\ last_draw.uniform_buffer = last_draw.pipeline
    /\ At("painting") =>
          /\ sdf_resources # None
          /\ sdf_resources[1].pipeline = callbacks[1].pipeline
          /\ sdf_resources[1].bind_group = callbacks[1].pipeline
          /\ sdf_resources[1].uniform_buffer = callbacks[1].pipeline

\* A pass has drawn with the objects of a creation that followed a recompile,
\* while the next turn's recompile already waits for the slot.
C4_Witness ==
    /\ last_draw.pipeline > 1
    /\ At("painting")
    /\ ui_pc \in {"auto_write", "click_write"}

\* C5: a turn that has compiled and asks for the slot's write lock never finds
\* it held by a callback that is inside resource creation.
C5_RecompileNeverWaitsOnCreate ==
    ~(ui_pc \in {"auto_write", "click_write"} /\ lock.writer # 0 /\ At("creating"))

\* The message the proof of concept shows when the GPU objects cannot be built.
ResourceError == "Failed to create WGPU resources"

\* C6: when creation from generated text has failed, the tab shows the
\* resource error, and a slot that had been filled before is still filled.
C6_CreateFailureSurfacedLastGoodKept ==
    At("create_failed") =>
        /\ compiler_error = Some(ResourceError)
        /\ created > 0 => sdf_resources # None

(* ------------------------ the Translate node (C11) --------------------- *)

\* A value to the nearest 10^-4, as a 4-decimal literal states it.
Round4(v) ==
    LET q == (Abs(v) + 5) \div 10
    IN  (IF v < 0 THEN 0 - q ELSE q) * 10

\* The number a 4-decimal literal of an offset reads as.
ReadOffset(tok) ==
    CHOOSE v \in {Round4(o[i]) : o \in Offsets, i \in 1..3} : Fmt4(v) = tok

\* The points the distance is sampled at.
SamplePoints == {<<0, 0, 0>>, <<2 * Unit, 0, 0>>, <<Unit, 0 - Unit, Half>>,
                 <<0 - Unit, 0 - Unit, 0 - Half>>}

\* The point expression the root hands on: the text around the first p_in,
\* "( p_in <op> vec3<f32> ( a , b , c ) )".
RootPointOf(expr) ==
    LET i == IndexFrom(expr, "p_in", 1)
    IN  SubSeq(expr, i - 1, i + 10)

\* The value of such a point expression when p_in is p.
PointValue(e, p) ==
    LET o == <<ReadOffset(e[6]), ReadOffset(e[8]), ReadOffset(e[10])>>
    IN  IF e[3] = "-"
        THEN <<p[1] - o[1], p[2] - o[2], p[3] - o[3]>>
        ELSE <<p[1] + o[1], p[2] + o[2], p[3] + o[3]>>

\* The text of the child alone, with the point e in the place of p_in.
ChildTextAt(n, e) == replace(MapExprOf(TextFor(n.target)), "p_in", e)

\* C11 as the spec states it: the text generated for Translate(Child, offset)
\* is the text generated for Child with the sampled point replaced by a point
\* expression whose value at every p is p - offset.
C11_TranslateSamplesAtPMinusOffset ==
    (Generated /\ node.op = "Translate") =>
        LET expr == MapExprOf(wgsl)
            e == RootPointOf(expr)
        IN  /\ expr = ChildTextAt(node, e)
            /\ \A p \in SamplePoints :
                  PointValue(e, p) = <<p[1] - node.offset[1], p[2] - node.offset[2],
                                       p[3] - node.offset[3]>>

\* C11 amended: the point expression is (p - literal), the literal being the
\* offset at 4 decimals: its value at every p is p - offset with each
\* component of the offset rounded to the nearest 10^-4, which is p - offset
\* itself when the offset has no more than 4 decimals.
C11_TranslateSamplesAtPMinusRoundedOffset ==
    (Generated /\ node.op = "Translate") =>
        LET expr == MapExprOf(wgsl)
            e == RootPointOf(expr)
            r == [i \in 1..3 |-> Round4(node.offset[i])]
        IN  /\ expr = ChildTextAt(node, e)
            /\ e[1] = "(" /\ e[2] = "p_in" /\ e[4] = "vec3<f32>" /\ e[12] = ")"
            /\ \A p \in SamplePoints :
                  PointValue(e, p) = <<p[1] - r[1], p[2] - r[2], p[3] - r[3]>>
            /\ (\A i \in 1..3 : node.offset[i] % 10 = 0) =>
                  \A p \in SamplePoints :
                      PointValue(e, p) = <<p[1] - node.offset[1], p[2] - node.offset[2],
                                           p[3] - node.offset[3]>>

\* C11's case: Translate(Sphere(1), (2, 0, 0)) sampled at (2, 0, 0) hands the
\* origin to the sphere.
C11_Witness ==
    /\ Generated
    /\ node = translate(new_sphere(Unit), 2 * Unit, 0, 0)
    /\ PointValue(RootPointOf(MapExprOf(wgsl)), <<2 * Unit, 0, 0>>) = <<0, 0, 0>>

\* ... and the offset with a fifth decimal.
C11_WitnessRounded ==
    /\ Generated
    /\ node.op = "Translate"
    /\ node.offset = <<12345, 0, 0>>
    /\ RootPointOf(MapExprOf(wgsl))[6] = "0.1235"


(* ------------------------- the Mirror node (C12) ----------------------- *)

\* The point expression a Mirror root hands on, "vec3<f32> ( part , part ,
\* part )": where it starts, and its three parts read off the text, each
\* "p_in . c" or "abs ( p_in . c )".
MirrorStart(expr) ==
    LET i == IndexFrom(expr, "p_in", 1)
    IN  IF expr[i - 2] = "abs" THEN i - 4 ELSE i - 2

PartAt(expr, i) ==
    IF expr[i] = "abs"
    THEN [fold |-> TRUE, c |-> expr[i + 4], next |-> i + 7,
          ok |-> SubSeq(expr, i, i + 5) = <<"abs", "(", "p_in", ".", expr[i + 4], ")">>]
    ELSE [fold |-> FALSE, c |-> expr[i + 2], next |-> i + 4,
          ok |-> SubSeq(expr, i, i + 2) = <<"p_in", ".", expr[i + 2]>>]

MirrorParts(expr) ==
    LET p1 == PartAt(expr, MirrorStart(expr) + 2)
        p2 == PartAt(expr, p1.next)
        p3 == PartAt(expr, p2.next)
    IN  <<p1, p2, p3>>

MirrorPointOf(expr) ==
    SubSeq(expr, MirrorStart(expr), MirrorParts(expr)[3].next - 1)

Coord(p, c) == CASE c = "x" -> p[1] [] c = "y" -> p[2] [] c = "z" -> p[3]

\* The value of the three parts when p_in is p.
MirrorValue(parts, p) ==
    [i \in 1..3 |-> IF parts[i].fold THEN Abs(Coord(p, parts[i].c)) ELSE Coord(p, parts[i].c)]

\* p with the flagged coordinates negated.
Reflected(p, axis) == [i \in 1..3 |-> IF axis[i] > AxisThreshold THEN 0 - p[i] ELSE p[i]]

\* C12: the text generated for Mirror(Child, axis) is the text of Child with
\* the sampled point replaced by vec3<f32>(x', y', z'), where a coordinate is
\* abs(coordinate) when its axis is flagged and the coordinate itself when it
\* is not, every flagged axis folded in the one node; so the point handed to
\* the child is the same at p and at p reflected across the flagged planes.
C12_MirrorFoldsFlaggedAxes ==
    (ByModeler /\ node.op = "Mirror") =>
        LET expr == MapExprOf(wgsl)
            parts == MirrorParts(expr)
        IN  /\ expr = ChildTextAt(node, MirrorPointOf(expr))
            /\ expr[MirrorStart(expr)] = "vec3<f32>"
            /\ \A i \in 1..3 :
                  /\ parts[i].ok
                  /\ parts[i].c = <<"x", "y", "z">>[i]
                  /\ parts[i].fold = (node.axis[i] > AxisThreshold)
            /\ \A p \in SamplePoints :
                  /\ MirrorValue(parts, p) = MirrorValue(parts, Reflected(p, node.axis))
                  /\ \A i \in 1..3 :
                        MirrorValue(parts, p)[i] =
                            IF node.axis[i] > AxisThreshold THEN Abs(p[i]) ELSE p[i]

\* C12's case: a mirror across two planes in one node, sampled where both
\* flagged coordinates matter.
C12_Witness ==
    /\ ByModeler
    /\ node.op = "Mirror"
    /\ node.axis = <<Unit, Unit, 0>>
    /\ MirrorValue(MirrorParts(MapExprOf(wgsl)), <<0 - Unit, 0 - Unit, 0 - Half>>)
          = <<Unit, Unit, 0 - Half>>

\* ... and the mirror mirror_x builds.
C12_WitnessX ==
    /\ ByModeler
    /\ node.op = "Mirror"
    /\ node.axis = <<Unit, 0, 0>>
    /\ MirrorParts(MapExprOf(wgsl))[1].fold
    /\ ~MirrorParts(MapExprOf(wgsl))[2].fold


(* -------------------------- the Color node (C13) ----------------------- *)

IsPointTransform(n) == n.op \in {"Translate", "Rotate", "Mirror"}

\* The root is a Color node, or point transforms with a Color node below.
RECURSIVE UnderColor(_)
UnderColor(n) ==
    \/ n.op = "Color"
    \/ IsPointTransform(n) /\ UnderColor(n.target)

\* That outermost Color node, and the tree without it.
RECURSIVE OuterColor(_)
OuterColor(n) == IF n.op = "Color" THEN n ELSE OuterColor(n.target)

RECURSIVE WithoutOuterColor(_)
WithoutOuterColor(n) ==
    IF n.op = "Color" THEN n.target
    ELSE [n EXCEPT !.target = WithoutOuterColor(n.target)]

RECURSIVE ColorNodes(_)
ColorNodes(n) ==
    IF IsCombinator(n) THEN ColorNodes(n.a) + ColorNodes(n.b)
    ELSE IF IsTransform(n) THEN (IF n.op = "Color" THEN 1 ELSE 0) + ColorNodes(n.target)
    ELSE 0

\* C13: when the root is a Color node, or point transforms above one, the
\* generated expression is set_color(<wrapped>, vec3<f32>(r, g, b)) with the
\* rgb of that outermost Color node at 4 decimals, whatever Color nodes lie
\* beneath, and <wrapped> is exactly the expression generated for the tree
\* without that node.
C13_OutermostColorWins ==
    (ByModeler /\ UnderColor(node)) =>
        LET expr == MapExprOf(wgsl)
            k == Len(expr)
            c == OuterColor(node).color
        IN  /\ expr[1] = "set_color" /\ expr[2] = "("
            /\ SubSeq(expr, k - 9, k) =
                  <<",", "vec3<f32>", "(", Fmt4(c[1]), ",", Fmt4(c[2]), ",", Fmt4(c[3]), ")", ")">>
            /\ SubSeq(expr, 3, k - 10) = MapExprOf(generate(WithoutOuterColor(node), ssaa))
            /\ Count(expr, "set_color") = ColorNodes(node)

\* C13's case: a Color node over another Color node of a different rgb.
C13_Witness ==
    /\ ByModeler
    /\ node.op = "Color"
    /\ node.target.op = "Color"
    /\ node.color # node.target.color
    /\ Count(MapExprOf(wgsl), "set_color") = 2

\* ... and a point transform above the Color node.
C13_WitnessTransform ==
    /\ ByModeler
    /\ IsPointTransform(node)
    /\ node.target.op = "Color"
    /\ MapExprOf(wgsl)[1] = "set_color"


(* -------------------------- the primitives (C14) ----------------------- *)

\* The fields of a primitive variant in the order SdfOp declares them, and
\* the distance function that goes with the variant.
FieldsOf(n) ==
    CASE n.op = "Sphere" -> <<n.radius>>
      [] n.op = "Box" -> n.size
      [] n.op = "Cylinder" -> <<n.radius, n.height>>
      [] n.op = "Torus" -> <<n.major_radius, n.minor_radius>>

DistFn(op) ==
    CASE op = "Sphere" -> "sd_sphere"
      [] op = "Box" -> "sd_box"
      [] op = "Cylinder" -> "sd_cylinder"
      [] op = "Torus" -> "sd_torus"

IsValueToken(t) == t \notin {"(", ")", ",", "vec3<f32>", "vec2<f32>"}

\* How many nodes of a variant a tree holds.
RECURSIVE NodesOf(_, _)
NodesOf(n, op) ==
    (IF n.op = op THEN 1 ELSE 0)
        + (IF IsCombinator(n) THEN NodesOf(n.a, op) + NodesOf(n.b, op)
           ELSE IF IsTransform(n) THEN NodesOf(n.target, op)
           ELSE 0)

\* C14: a primitive at the root is emitted as SdfResult(<fn>(p_in, <fields>),
\* vec3<f32>(0.2, 0.55, 1.0)): one call of the variant's own distance
\* function on the point, then the variant's fields in declaration order at
\* 4 decimals, paired with the default colour; and in every tree each
\* primitive node is one call of its distance function.
C14_PrimitiveIsOneDistanceCall ==
    /\ (ByModeler /\ IsPrimitive(node)) =>
          LET expr == MapExprOf(wgsl)
              k == Len(expr)
              f == FieldsOf(node)
              args == SelectSeq(SubSeq(expr, 7, k - 11), IsValueToken)
          IN  /\ SubSeq(expr, 1, 6) = <<"SdfResult", "(", DistFn(node.op), "(", "p_in", ",">>
              /\ Len(args) = Len(f)
              /\ \A i \in 1..Len(f) : args[i] = Fmt4(f[i])
              /\ SubSeq(expr, k - 10, k) =
                    <<")", ",", "vec3<f32>", "(", "0.2", ",", "0.55", ",", "1.0", ")", ")">>
    /\ ByModeler =>
          LET expr == MapExprOf(wgsl)
          IN  \A op \in {"Sphere", "Box", "Cylinder", "Torus"} :
                  Count(expr, DistFn(op)) = NodesOf(node, op)

\* C14's case: Sphere(1.0) at the root reads sd_sphere(p_in, 1.0000).
C14_Witness ==
    /\ ByModeler
    /\ node = new_sphere(Unit)
    /\ SubSeq(MapExprOf(wgsl), 3, 8) = <<"sd_sphere", "(", "p_in", ",", "1.0000", ")">>

\* ... and a primitive with two fields of different values.
C14_WitnessTorus ==
    /\ ByModeler
    /\ node.op = "Torus"
    /\ node.major_radius # node.minor_radius


(* ----------------------- the numeric literals (C15) -------------------- *)

\* The tokens of a map expression that are not numbers.
Words ==
    {"SdfResult", "(", ")", ",", ".", "-", "+", "p_in", "x", "y", "z", "abs",
     "sd_sphere", "sd_box", "sd_cylinder", "sd_torus", "vec3<f32>", "vec2<f32>",
     "op_union", "op_union_smooth", "op_subtract", "op_subtract_smooth",
     "op_intersect", "op_intersect_smooth", "rotate_x", "rotate_y", "rotate_z",
     "set_color"}

IsNumber(expr, j) == expr[j] \notin Words

\* The literal with exactly four decimals that reads as w (a multiple of
\* 10^-4), written digit by digit.
Lit4(neg, w) ==
    LET q == w \div 10
    IN  (IF neg THEN "-" ELSE "") \o ToString(q \div 10000) \o "."
           \o ToString((q \div 1000) % 10) \o ToString((q \div 100) % 10)
           \o ToString((q \div 10) % 10) \o ToString(q % 10)

\* The literals with exactly four decimals that read as a number within
\* 10^-4 of f.
FourDecimalsNear(f) ==
    UNION {{Lit4(neg, w) : neg \in (IF w = 0 THEN BOOLEAN ELSE {f.neg})} :
              w \in {x \in (f.mag - 10)..(f.mag + 10) : x >= 0 /\ x % 10 = 0}}

\* The numbers a tree holds: primitive fields, offsets, blend factors, colour
\* components and rotation angles.
RECURSIVE TreeValues(_)
TreeValues(n) ==
    CASE IsPrimitive(n) -> {FieldsOf(n)[i] : i \in 1..Len(FieldsOf(n))}
      [] IsCombinator(n) -> {n.smooth} \cup TreeValues(n.a) \cup TreeValues(n.b)
      [] n.op = "Translate" -> {n.offset[i] : i \in 1..3} \cup TreeValues(n.target)
      [] n.op = "Rotate" -> {n.angle_deg} \cup TreeValues(n.target)
      [] n.op = "Color" -> {n.color[i] : i \in 1..3} \cup TreeValues(n.target)
      [] n.op = "Mirror" -> TreeValues(n.target)

\* The numbers the generator formats: as above, but a rotation's angle
\* negated and in radians, and a blend factor only where it is positive and
\* the combinator has a smooth form.
RECURSIVE FormattedValues(_)
FormattedValues(n) ==
    CASE IsPrimitive(n) -> {F32(FieldsOf(n)[i]) : i \in 1..Len(FieldsOf(n))}
      [] n.op \in {"Union", "Subtract"} ->
           (IF n.smooth > 0 THEN {F32(n.smooth)} ELSE {})
               \cup FormattedValues(n.a) \cup FormattedValues(n.b)
      [] n.op = "Intersect" -> FormattedValues(n.a) \cup FormattedValues(n.b)
      [] n.op = "Translate" -> {F32(n.offset[i]) : i \in 1..3} \cup FormattedValues(n.target)
      [] n.op = "Rotate" -> {to_radians(Neg(F32(n.angle_deg)))} \cup FormattedValues(n.target)
      [] n.op = "Color" -> {F32(n.color[i]) : i \in 1..3} \cup FormattedValues(n.target)
      [] n.op = "Mirror" -> FormattedValues(n.target)

\* Token j is one of the three numbers of a default colour constant.
InDefaultColor(expr, j) ==
    \E s \in {j - 2, j - 4, j - 6} :
        s >= 1 /\ s + 7 <= Len(expr) /\ SubSeq(expr, s, s + 7) = DefaultColor

\* C15 as stated: every numeric literal of the map expression has exactly 4
\* decimals and equals a number v of the tree (field, offset, blend factor,
\* colour component or rotation angle) within 1e-4.
C15_EveryLiteralFourDecimalsOfTreeValue ==
    ByModeler =>
        LET expr == MapExprOf(wgsl)
            near == UNION {FourDecimalsNear(F32(v)) : v \in TreeValues(node)}
        IN  \A j \in 1..Len(expr) : IsNumber(expr, j) => expr[j] \in near

\* C15, amended: every numeric literal of the map expression outside the
\* default colour constants has exactly 4 decimals and equals a number the
\* generator formats within 1e-4: a primitive field, a translate offset, a
\* colour component, a positive blend factor of a union or subtraction, or
\* a rotation's negated angle in radians; and each of these numbers appears
\* as such a literal.
C15_FormattedLiteralsFourDecimals ==
    ByModeler =>
        LET expr == MapExprOf(wgsl)
            values == FormattedValues(node)
            formatted ==
                {expr[j] : j \in {i \in 1..Len(expr) : IsNumber(expr, i) /\ ~InDefaultColor(expr, i)}}
        IN  /\ formatted \subseteq UNION {FourDecimalsNear(f) : f \in values}
            /\ \A f \in values : FourDecimalsNear(f) \cap formatted # {}

\* C15's cases: a quarter turn, emitted as -1.5708, ...
C15_Witness ==
    /\ ByModeler
    /\ node.op = "Rotate"
    /\ node.angle_deg = 90 * Unit
    /\ Count(MapExprOf(wgsl), "-1.5708") = 1

\* ... and an offset with five decimals, 0.12345, emitted as 0.1235.
C15_WitnessRounded ==
    /\ ByModeler
    /\ node.op = "Translate"
    /\ node.offset[1] = 12345
    /\ Count(MapExprOf(wgsl), "0.1235") = 1


(* ------------------------ the builder calls (C17) ---------------------- *)

C17_WitnessTransform ==
    /\ call.method = "translate"
    /\ Size(node) > 1
    /\ ret.target = node


(* --------------------- the smoothing factors (C18) --------------------- *)

\* Every combinator of the tree has a smoothing factor of zero or more.
RECURSIVE SmoothNonNegative(_)
SmoothNonNegative(n) ==
    IF IsCombinator(n)
    THEN n.smooth >= 0 /\ SmoothNonNegative(n.a) /\ SmoothNonNegative(n.b)
    ELSE IF IsTransform(n) THEN SmoothNonNegative(n.target)
    ELSE TRUE

\* C18: a builder called on a tree whose smoothing factors are non-negative,
\* with an argument of the same kind, returns a tree whose smoothing factors
\* are non-negative: no tree built through the builders holds a negative one.
C18_SmoothingFactorNonNegative ==
    (call # NoArgs /\ SmoothNonNegative(node) /\ SmoothNonNegative(call.other))
        => SmoothNonNegative(ret)


(* ------------------------- the template merge (C19) -------------------- *)

\* Where the template has its placeholder.
PlaceholderAt == IndexFrom(Template, Placeholder, 1)

\* C19: a compiled shader is the template with the generated code of the
\* scene, at the level the compilation read, standing where the placeholder
\* stood: the template's text before and after it is unchanged, the generated
\* code is there as generate returned it, and no placeholder is left.
C19_MergeSubstitutesAtPlaceholder ==
    current_shader # <<>> =>
        LET code == generate(Scene, last_applied_ssaa)
            i == PlaceholderAt
            last == Len(current_shader)
        IN  /\ last = Len(Template) - 1 + Len(code)
            /\ SubSeq(current_shader, 1, i - 1) = SubSeq(Template, 1, i - 1)
            /\ SubSeq(current_shader, i, i + Len(code) - 1) = code
            /\ SubSeq(current_shader, i + Len(code), last) = SubSeq(Template, i + 1, Len(Template))
            /\ Count(current_shader, Placeholder) = 0

\* C19's case: a project has been compiled at the 2x2 level, and the loops of
\* the generated fragment entry stand between the template's two parts.
C19_Witness ==
    /\ current_shader # <<>>
    /\ last_applied_ssaa = "Ssaa2x2"
    /\ Count(current_shader, "for") = 2
    /\ current_shader[1] = Template[1]
    /\ current_shader[Len(current_shader)] = Template[Len(Template)]


(* --------------------------- termination (C20) ------------------------- *)

\* The paths of all the nodes of a tree.
RECURSIVE PathsOf(_)
PathsOf(n) ==
    {<<>>}
        \cup (IF IsCombinator(n)
              THEN {<<"a">> \o q : q \in PathsOf(n.a)} \cup {<<"b">> \o q : q \in PathsOf(n.b)}
              ELSE IF IsTransform(n) THEN {<<"target">> \o q : q \in PathsOf(n.target)}
              ELSE {})

\* generate has returned its text.
Returned ==
    /\ wgsl # <<>>
    /\ emit_stack = <<>>
    /\ wgsl[Len(wgsl)] = "}"

\* emit_expression was called on every node of the tree, on none twice.
VisitedEachNodeOnce ==
    /\ {emit_visited[i] : i \in 1..Len(emit_visited)} = PathsOf(node)
    /\ Len(emit_visited) = Size(node)

\* C20: for every tree and level, generate returns its text, after
\* emit_expression was called on each node of the tree exactly once.
C20_GenerateTerminatesVisitingEachNodeOnce == <>(Returned /\ VisitedEachNodeOnce)

\* C20's case: generate has returned for a tree with a combinator at the
\* root and two children, at the 8x8 level.
C20_Witness ==
    /\ Returned
    /\ prog = "modeler"
    /\ ssaa = "Ssaa8x8"
    /\ IsCombinator(node)
    /\ Size(node) >= 3
    /\ Len(emit_visited) = Size(node)


(* ----------------------- crisp subtraction (C21) ----------------------- *)

\* How many parentheses are open after token i.
Depth(e, i) ==
    Cardinality({k \in 1..i : e[k] = "("}) - Cardinality({k \in 1..i : e[k] = ")"})

\* e is one call f(...): the parenthesis after f closes at the last token, so
\* that an operator written before e applies to all of it.
IsCall(e) ==
    /\ Len(e) >= 3
    /\ e[2] = "("
    /\ e[Len(e)] = ")"
    /\ \A i \in 2..(Len(e) - 1) : Depth(e, i) > 0

\* The arguments of a call: the texts between its top-level commas.
TopCommas(e) == {i \in 1..Len(e) : e[i] = "," /\ Depth(e, i) = 1}

ArgsOf(e) ==
    LET cuts == TopCommas(e) \cup {2, Len(e)}
    IN  {SubSeq(e, i + 1, j - 1) :
            <<i, j>> \in {c \in cuts \X cuts :
                            c[1] < c[2] /\ \A m \in cuts : ~(c[1] < m /\ m < c[2])}}

C21_WitnessModeler ==
    /\ ByModeler
    /\ node.op = "Subtract"
    /\ node.smooth = 0
    /\ node.a.op = "Torus"
    /\ node.b.op = "Box"


(* ------------------ the point of the two children (C22) ---------------- *)

\* The point expression a transform node at the root hands to its child:
\* the point of the call generated for a sphere in the child's place.
PointUnder(n) ==
    LET x == MapExprOf(TextFor([n EXCEPT !.target = new_sphere(Unit)]))
    IN  IF prog = "modeler" THEN SubSeq(x, 5, Len(x) - 13) ELSE SubSeq(x, 3, Len(x) - 3)

\* The text generated for a tree alone, with the point pt in the place of the
\* sampled point.
TextAt(n, pt) == replace(MapExprOf(TextFor(n)), "p_in", pt)

\* e is a call whose first two arguments are the texts l and r.
OperandsAre(e, l, r) ==
    /\ IsCall(e)
    /\ Len(e) >= 4 + Len(l) + Len(r)
    /\ SubSeq(e, 3, 2 + Len(l)) = l
    /\ e[3 + Len(l)] = ","
    /\ SubSeq(e, 4 + Len(l), 3 + Len(l) + Len(r)) = r
    /\ e[4 + Len(l) + Len(r)] \in {",", ")"}
    /\ Depth(e, 3 + Len(l)) = 1
    /\ Depth(e, 3 + Len(l) + Len(r)) = 1

\* The right operand as a combinator writes it: the proof of concept's
\* subtraction puts a minus before it.
RightOperand(n, r) == IF prog = "poc" /\ n.op = "Subtract" THEN <<"-">> \o r ELSE r

\* C22: the operands of a combinator at the root are the texts generated for
\* its two children alone, both at the sampled point, so that a transform
\* around one child rewrites the point in that child's text only; and the
\* operands of a combinator below a transform are the texts of its two children
\* with the one point the transform hands on in the place of the sampled point.
C22_BothChildrenAtTheIncomingPoint ==
    /\ (Generated /\ IsCombinator(node)) =>
          OperandsAre(MapExprOf(wgsl), TextAt(node.a, <<"p_in">>),
                      RightOperand(node, TextAt(node.b, <<"p_in">>)))
    /\ (Generated /\ IsPointTransform(node) /\ IsCombinator(node.target)) =>
          LET pt == PointUnder(node)
          IN  /\ pt # <<"p_in">>
              /\ OperandsAre(MapExprOf(wgsl), TextAt(node.target.a, pt),
                             RightOperand(node.target, TextAt(node.target.b, pt)))

\* C22's cases: a combinator whose left child is under a transform and whose
\* right child is not, ...
C22_Witness ==
    /\ ByModeler
    /\ IsCombinator(node)
    /\ IsPointTransform(node.a)
    /\ IsPrimitive(node.b)

\* ... one whose right child is under a transform, ...
C22_WitnessRight ==
    /\ ByModeler
    /\ IsCombinator(node)
    /\ IsPrimitive(node.a)
    /\ node.b.op = "Translate"

\* ... and a combinator below a mirror.
C22_WitnessBelow ==
    /\ ByModeler
    /\ node.op = "Mirror"
    /\ IsCombinator(node.target)


(* ------------------------ nested transforms (C27) ---------------------- *)

\* A point expression that is one unit: a call, or a parenthesised
\* expression, so that what is written after or around it applies to all of it.
Wrapped(pt) ==
    \/ IsCall(pt)
    \/ /\ Len(pt) >= 3
       /\ pt[1] = "("
       /\ pt[Len(pt)] = ")"
       /\ \A i \in 1..(Len(pt) - 1) : Depth(pt, i) > 0

\* C27: below two transform nodes the subtree is emitted at the point got by
\* applying the outer node's rewrite to the sampled point and the inner
\* node's rewrite to the result, each rewrite taking the whole previous point
\* expression as its point and giving one unit again.
C27_TransformsComposeRootFirst ==
    (Generated /\ IsPointTransform(node) /\ IsPointTransform(node.target)) =>
        LET outer == PointUnder(node)
            inner == PointUnder(node.target)
            pt == replace(inner, "p_in", outer)
        IN  /\ MapExprOf(wgsl) = TextAt(node.target.target, pt)
            /\ Wrapped(outer)
            /\ Wrapped(pt)
            /\ Count(pt, "p_in") = Count(inner, "p_in") * Count(outer, "p_in")

\* C27's cases: Translate(Rotate(Sphere, 90 degrees about y), (2, 0, 0)) samples
\* the sphere at rotate_y((p_in - (2, 0, 0)), -1.5708), ...
C27_Witness ==
    /\ ByModeler
    /\ node = translate(rotate_y(new_sphere(Unit), 90 * Unit), 2 * Unit, 0, 0)
    /\ SubSeq(MapExprOf(wgsl), 5, Len(MapExprOf(wgsl)) - 13) =
          << "rotate_y", "(", "(", "p_in", "-", "vec3<f32>", "(", "2.0000", ",", "0.0000", ",",
             "0.0000", ")", ")", ",", "-1.5708", ")" >>

\* ... the same transforms in the other order, ...
C27_WitnessOtherOrder ==
    /\ Generated
    /\ node.op = "Rotate"
    /\ node.target.op = "Translate"

\* ... and a mirror below a translation, whose component selections apply to
\* the parenthesised difference.
C27_WitnessMirror ==
    /\ ByModeler
    /\ node.op = "Translate"
    /\ node.target.op = "Mirror"
    /\ IsPrimitive(node.target.target)


(* --------------------- the automatic recompile (C23) ------------------- *)

\* The shader a compile of the good script gives at a level.
ShaderAt(level) == replace(Template, Placeholder, generate(Scene, level))

\* C23: a turn that starts with the setting different from the last applied
\* level and a project open compiles at once; if the script evaluates, the
\* last applied level becomes the setting, the shader is the text generated
\* at it and the turn goes on to clear the slot; if not, level, shader and
\* slot stay and the setting still differs, so that the next turn compiles
\* again. A turn that starts otherwise (no project, or no difference) makes
\* no automatic compile. A turn over a project whose script evaluates ends
\* with the last applied level equal to the setting.
C23_MismatchRecompilesEveryTurn ==
    [][ /\ (ui_pc = "idle" /\ ui_pc' # "idle") =>
              IF settings # last_applied_ssaa /\ project_path # None
              THEN IF main_rhai = "scene"
                   THEN /\ last_applied_ssaa' = settings
                        /\ current_shader' = ShaderAt(settings)
                        /\ ui_pc' = "auto_write"
                   ELSE /\ last_applied_ssaa' = last_applied_ssaa
                        /\ current_shader' = current_shader
                        /\ sdf_resources' = sdf_resources
                        /\ ui_pc' = "top_bar"
                        /\ settings' # last_applied_ssaa'
                        /\ project_path' # None
              ELSE /\ last_applied_ssaa' = last_applied_ssaa
                   /\ current_shader' = current_shader
                   /\ sdf_resources' = sdf_resources
                   /\ ui_pc' = "top_bar"
        /\ (ui_pc = "auto_write" /\ ui_pc' # "auto_write") =>
              /\ sdf_resources' = None
              /\ ui_pc' = "top_bar"
        /\ (ui_pc = "viewport" /\ ui_pc' = "idle" /\ project_path # None /\ main_rhai = "scene") =>
              last_applied_ssaa' = settings' ]_vars

\* C23's cases: the automatic compile has succeeded at a new level and the
\* turn is about to clear a slot that is filled, ...
C23_Witness ==
    /\ ui_pc = "auto_write"
    /\ last_applied_ssaa = "Ssaa2x2"
    /\ current_shader = ShaderAt("Ssaa2x2")
    /\ sdf_resources # None

\* ... and it has failed, over a shader of the earlier level.
C23_WitnessFailed ==
    /\ ui_pc = "top_bar"
    /\ project_path # None
    /\ settings # last_applied_ssaa
    /\ main_rhai = "broken"
    /\ current_shader = ShaderAt(last_applied_ssaa)


(* ----------------- shader text and applied level (C24) ----------------- *)

\* The levels at which a compile of the script gives this shader text.
GeneratedAt(shader) == {level \in TabLevels : shader = ShaderAt(level)}

\* C24: in every state of the tab a shader text that is not empty is the one
\* generated at the last applied level and at no other; a step that makes a
\* compile attempt, by any of the three paths, stores the new text and the
\* level it was generated at together when the attempt succeeds and leaves
\* both when it fails, and no other step touches either.
C24_ShaderGeneratedAtAppliedLevel ==
    /\ [](current_shader # <<>> => GeneratedAt(current_shader) = {last_applied_ssaa})
    /\ [][ IF (AutoCompileDue \/ ClickCompileDue) /\ ui_pc' # ui_pc /\ Attempt.ok
           THEN /\ last_applied_ssaa' = settings
                /\ GeneratedAt(current_shader') = {settings}
           ELSE /\ last_applied_ssaa' = last_applied_ssaa
                /\ current_shader' = current_shader ]_vars

\* C24's case: the setting was changed over a compiled shader and the
\* attempts since then, the automatic one and a clicked one, have failed.
C24_Witness ==
    /\ ui_pc = "viewport"
    /\ current_shader # <<>>
    /\ compiler_error # None
    /\ settings # last_applied_ssaa
    /\ GeneratedAt(current_shader) = {last_applied_ssaa}


(* ------------------- the slot and stale callbacks (C25) ---------------- *)

\* A compile has stored its text and the turn has not yet cleared the slot.
ClearPending == ui_pc \in {"auto_write", "click_write"}

\* C25: outside the moment between a compile and its clearing of the slot,
\* resources standing in the shared slot were built from the tab's current
\* shader text, which is the text of the most recent successful compile: a
\* callback that carries an older text does not fill the slot again once a
\* compile has cleared it.
C25_SlotBuiltFromLatestCompile ==
    (sdf_resources # None /\ ~ClearPending) => sdf_resources[1].source = current_shader


(* -------------- the displayed error and the last attempt (C26) --------- *)

\* C26: a step that makes a compile attempt, by the automatic path or by
\* either button, leaves compiler_error empty when the attempt succeeded and
\* holding the attempt's message when it failed; no other step changes
\* compiler_error, so that it always tells of the most recent attempt.
C26_ErrorReflectsLastAttempt ==
    [][ IF (AutoCompileDue \/ ClickCompileDue) /\ ui_pc' # ui_pc
        THEN compiler_error' = IF Attempt.ok THEN None ELSE Some(Attempt.error)
        ELSE compiler_error' = compiler_error ]_vars

====
